---- MODULE Spec2Model ----
(***************************************************************************)
(* A model of goes16ci/models.py: the network builders                     *)
(* (StandardConvNet.build_network, ResNet.build_network and                *)
(* ResNet.residual_block), StandardConvNet.fit / get_data_shapes, the      *)
(* training drivers (train_conv_net_cpu, train_conv_net_gpu) and           *)
(* MinMaxScaler2D.                                                         *)
(*                                                                         *)
(* Tensors are modelled by their shapes (without the batch axis), the      *)
(* tensor engine (Keras / TensorFlow) by the shape rules of the layers     *)
(* the code uses and by calls that either succeed or raise.                *)
(***************************************************************************)
EXTENDS Integers, Sequences, FiniteSets, TLC

\* ------------------------------------------------------------------ bounds

\* Inputs are square images of side b * 2^j, b in WidthBases, j in
\* 0..MaxDoublings.
MaxDoublings == 4
\* output_size handed to build_network ranges over 1..MaxOutputSize.
MaxOutputSize == 2

WidthBases == {1, 7}

RECURSIVE Pow2(_)
Pow2(j) == IF j <= 0 THEN 1 ELSE 2 * Pow2(j - 1)

SpatialSizes == {b * Pow2(j) : b \in WidthBases, j \in 0..MaxDoublings}
ChannelCounts == {2, 3}
MinFilterChoices == {5, 16}
\* filter_growth_rate as an exact fraction n/d (1, 1.5 and 2 are exact floats).
GrowthRates == {[n |-> 1, d |-> 1], [n |-> 3, d |-> 2], [n |-> 2, d |-> 1]}
MinDataWidths == {1, 4, 7}
DataFormats == {"channels_first", "channels_last"}
NetClasses == {"StandardConvNet", "ResNet"}

None == "None"

\* ------------------------------------------------------------------- state

VARIABLES
    \* --- network builder (one build_network call on one object)
    net,              \* class of the object: StandardConvNet or ResNet
    hp,               \* its hyperparameters (constructor arguments)
    input_shape,      \* build_network's input_shape, a 3-tuple
    output_size,      \* build_network's output_size
    bpc,              \* position in build_network
    layer,            \* shape of scn_model / res_model, the layer built so far
    num_conv_layers,  \* the local of that name
    num_filters,      \* the local of that name
    c,                \* the loop index
    stages,           \* the stages built so far, one record each
    built,            \* self.model after build_network: None or the Model
    \* --- training drivers (one call of train_conv_net_cpu / _gpu)
    drv,              \* which driver runs: "cpu", "gpu", or "api" (no driver)
    num_gpus,         \* train_conv_net_gpu's num_gpus
    seed,             \* the seed argument
    cfg_batch,        \* conv_net_hyperparameters["batch_size"]
    train_x,          \* shape of train_data
    train_y,          \* shape of train_labels
    dpc,              \* position in the driver
    np_seed,          \* seed of np.random: {} (unseeded) or {value}
    tf_seed,          \* seed of the tensor engine: {} or {value}
    sess,             \* the device session: "none", "open" or "closed"
    printed,          \* what the driver printed (model summaries left out)
    saved,            \* the save_model calls made: path and model
    \* --- the network object scn and StandardConvNet.fit
    scn,              \* the object: exists, batch_size, model
    n_built,          \* number of layer graphs built so far
    fpc,              \* position in fit
    fit_x,            \* shape of fit's x
    fit_y,            \* shape of fit's y
    fit_build,        \* fit's build argument
    fit_error,        \* {} or the exception fit raised
    shapes_ret,       \* {} or what the last get_data_shapes call did
    model_at_call,    \* self.model when fit was entered
    built_at_call,    \* n_built when fit was entered
    fit_calls,        \* the model.fit calls made: batch size and model
    n_fits,           \* number of fit calls started
    \* --- MinMaxScaler2D (one scaler object)
    out_min,          \* self.out_min
    out_max,          \* self.out_max
    out_range,        \* self.out_range
    scale_values,     \* self.scale_values: {} (None) or {the fitted table}
    fit_data,         \* {} or {the array last given to fit}
    tr_data,          \* {} or {the array last given to transform}
    tr_out,           \* {} or {what that transform call returned}
    tr_error,         \* {} or {the exception that transform call raised}
    last_op           \* the method called last

bvars == <<net, hp, input_shape, output_size, bpc, layer, num_conv_layers,
           num_filters, c, stages, built>>

dvars == <<drv, num_gpus, seed, cfg_batch, train_x, train_y, dpc, np_seed,
           tf_seed, sess, printed, saved>>
ovars == <<scn, n_built, fpc, fit_x, fit_y, fit_build, fit_error, shapes_ret,
           model_at_call, built_at_call, fit_calls, n_fits>>

svars == <<out_min, out_max, out_range, scale_values, fit_data, tr_data,
           tr_out, tr_error, last_op>>

vars == <<bvars, dvars, ovars, svars>>

\* ------------------------------------------------- build_network: helpers

\* Python's int(): truncation toward zero of the fraction a/b, b > 0.
IntTrunc(a, b) == IF a >= 0 THEN a \div b ELSE -((-a) \div b)

\* floor(log2(a / b)) for a >= b >= 1: the largest e with b * 2^e <= a.
RECURSIVE FloorLog2Ratio(_, _)
FloorLog2Ratio(a, b) == IF 2 * b <= a THEN 1 + FloorLog2Ratio(a, 2 * b) ELSE 0

\* int(log2(w) - log2(m)) in exact arithmetic: truncation toward zero.
ExactDepth(w, m) ==
    IF w >= m THEN FloorLog2Ratio(w, m) ELSE -FloorLog2Ratio(m, w)

\* w / m is an exact power of two 2^e with e >= 1.
IsDoubling(w, m) == w > m /\ w = m * Pow2(FloorLog2Ratio(w, m))

\* np.log2 is exact on powers of two and rounded to a double elsewhere, and
\* the roundings of log2(w) and log2(m) need not cancel: for these (w, m),
\* with w = m * 2^e, the double log2(w) - log2(m) is one unit in the last
\* place below e (log2(28) - log2(7) = 1.9999999999999996).  The pairs are
\* those among the sizes up to 448 and the min_data_width values of this
\* model; for every other pair of them the truncated double difference is
\* the truncated exact difference.
Log2DifferenceRoundsBelow == {<<28, 7>>, <<56, 7>>, <<112, 7>>}

\* num_conv_layers = int(np.log2(input_shape[1]) - np.log2(min_data_width))
NumConvLayers(w, m) ==
    IF <<w, m>> \in Log2DifferenceRoundsBelow THEN ExactDepth(w, m) - 1
    ELSE ExactDepth(w, m)

\* Position of the channel axis in a shape without its batch axis.
ChannelAxis(fmt) == IF fmt = "channels_first" THEN 1 ELSE 3
SpatialAxes(fmt) == IF fmt = "channels_first" THEN {2, 3} ELSE {1, 2}
\* The axis of the spatial width x: input_shape is [variable, y, x] in
\* channels_first and [y, x, variable] in channels_last.
WidthAxis(fmt) == IF fmt = "channels_first" THEN 3 ELSE 2

\* Conv2D(filters, ..., padding="same", data_format=fmt): the spatial size is
\* kept and the channel axis becomes filters.
Conv2D(filters, shape, fmt) == [shape EXCEPT ![ChannelAxis(fmt)] = filters]

\* MaxPool2D / AveragePooling2D with the default 2x2 window, stride 2 and
\* "valid" padding: each spatial axis n becomes floor(n / 2); the engine
\* rejects an axis shorter than the window.
PoolOk(shape, fmt) == \A a \in SpatialAxes(fmt) : shape[a] >= 2
Pool2D(shape, fmt) ==
    [a \in 1..3 |-> IF a \in SpatialAxes(fmt) THEN shape[a] \div 2 ELSE shape[a]]

\* Add()([y, x]): Keras merges elementwise with broadcasting of axes of
\* length 1 and raises on any other mismatch.
AddOk(s1, s2) == \A a \in 1..3 : s1[a] = s2[a] \/ s1[a] = 1 \/ s2[a] = 1
AddShape(s1, s2) == [a \in 1..3 |-> IF s1[a] = 1 THEN s2[a] ELSE s1[a]]

\* num_filters = int(num_filters * self.filter_growth_rate)
\* (A variant that rounds up instead of truncating.)
NextFiltersRoundUp(n, rate) == (n * rate.n + rate.d - 1) \div rate.d
NextFilters(n, rate) == IntTrunc(n * rate.n, rate.d)

\* ---------------------------------------------------- ResNet.residual_block

\* The shortcut test `in_layer.shape[-1].value != filters`: the LAST axis of
\* the incoming layer, whatever the data layout.
TakesProjection(filters, in_layer, fmt) == in_layer[3] # filters

\* residual_block(filters, in_layer): the shapes of x (the shortcut), of y
\* (the main path) and of the sum; ok is FALSE when Add raises.
residual_block(filters, in_layer, fmt) ==
    LET proj == TakesProjection(filters, in_layer, fmt)
        x    == IF proj THEN Conv2D(filters, in_layer, fmt) ELSE in_layer
        y    == Conv2D(filters, Conv2D(filters, x, fmt), fmt)
    IN  [ok       |-> AddOk(y, x),
         shortcut |-> IF proj THEN "projection" ELSE "identity",
         out      |-> AddShape(y, x)]

\* ------------------------------------------------------- idle components

NoModel == [id |-> 0, replicated |-> FALSE, compiled |-> FALSE, fitted |-> FALSE]
NoObject == [exists |-> FALSE, cls |-> None, batch_size |-> 0, model |-> NoModel]

BuilderIdle ==
    /\ net = None /\ hp = None /\ input_shape = <<>> /\ output_size = 0
    /\ bpc = "idle" /\ layer = None /\ num_conv_layers = 0 /\ num_filters = 0
    /\ c = 0 /\ stages = <<>> /\ built = None

DriverIdle ==
    /\ drv = "api" /\ num_gpus = 0 /\ seed = 0 /\ cfg_batch = 0
    /\ train_x = <<>> /\ train_y = <<>> /\ dpc = "idle"
    /\ np_seed = {} /\ tf_seed = {} /\ sess = "none"
    /\ printed = <<>> /\ saved = {}

ObjectIdle ==
    /\ scn = NoObject /\ n_built = 0 /\ fpc = "idle"
    /\ fit_x = <<>> /\ fit_y = <<>> /\ fit_build = TRUE /\ fit_error = {}
    /\ shapes_ret = {} /\ model_at_call = NoModel /\ built_at_call = 0
    /\ fit_calls = {} /\ n_fits = 0

ScalerIdle ==
    /\ out_min = 0 /\ out_max = 1 /\ out_range = 1 /\ scale_values = {}
    /\ fit_data = {} /\ tr_data = {} /\ tr_out = {} /\ tr_error = {}
    /\ last_op = "idle"

\* ------------------------------------------------------------ build_network

\* The body of one stage before its pooling layer.
StageBody(cls, filters, in_layer, fmt) ==
    IF cls = "ResNet" THEN residual_block(filters, in_layer, fmt)
    ELSE [ok |-> TRUE, shortcut |-> None, out |-> Conv2D(filters, in_layer, fmt)]

BuildInit ==
    /\ net \in NetClasses
    /\ hp \in [min_filters : MinFilterChoices, filter_growth_rate : GrowthRates,
               min_data_width : MinDataWidths, data_format : DataFormats]
    /\ \E side \in SpatialSizes, channels \in ChannelCounts :
          input_shape = [a \in 1..3 |->
                            IF a = ChannelAxis(hp.data_format) THEN channels
                            ELSE side]
    /\ output_size \in 1..MaxOutputSize
    /\ bpc = "call"
    /\ layer = None
    /\ num_conv_layers = 0
    /\ num_filters = 0
    /\ c = 0
    /\ stages = <<>>
    /\ built = None
    /\ DriverIdle
    /\ ObjectIdle
    /\ ScalerIdle

\* Lines 64-67 / 183-187: the Input layer, the depth, the first filter count.
BuildStart ==
    /\ bpc = "call"
    /\ layer' = input_shape
    /\ num_conv_layers' = NumConvLayers(input_shape[2], hp.min_data_width)
    /\ num_filters' = hp.min_filters
    /\ c' = 0
    /\ bpc' = "loop"
    /\ UNCHANGED <<net, hp, input_shape, output_size, stages, built>>
    /\ UNCHANGED <<dvars, ovars, svars>>

\* One iteration of `for c in range(num_conv_layers)`.
BuildStage ==
    /\ bpc = "loop"
    /\ c < num_conv_layers
    /\ LET body == StageBody(net, num_filters, layer, hp.data_format)
           rec  == [filters |-> num_filters, in |-> layer, ok |-> body.ok,
                    shortcut |-> body.shortcut, out |-> body.out]
       IN  /\ stages' = Append(stages, rec)
           /\ IF body.ok /\ PoolOk(body.out, hp.data_format)
              THEN /\ layer' = Pool2D(body.out, hp.data_format)
                   /\ num_filters' = NextFilters(num_filters, hp.filter_growth_rate)
                   /\ c' = c + 1
                   /\ bpc' = "loop"
              ELSE \* the engine raises; the exception leaves build_network
                   /\ bpc' = "error"
                   /\ UNCHANGED <<layer, num_filters, c>>
    /\ UNCHANGED <<net, hp, input_shape, output_size, num_conv_layers, built>>
    /\ UNCHANGED <<dvars, ovars, svars>>

\* Lines 80-85 / 195-200: Flatten, (Dropout,) Dense(output_size), Activation,
\* self.model = Model(...).
BuildTail ==
    /\ bpc = "loop"
    /\ c >= num_conv_layers
    /\ built' = [input |-> input_shape,
                 flat  |-> layer[1] * layer[2] * layer[3],
                 units |-> output_size,
                 n_stages |-> c]
    /\ bpc' = "done"
    /\ UNCHANGED <<net, hp, input_shape, output_size, layer, num_conv_layers,
                   num_filters, c, stages>>
    /\ UNCHANGED <<dvars, ovars, svars>>

BuildNext == BuildStart \/ BuildStage \/ BuildTail

SpecBuild == BuildInit /\ [][BuildNext]_vars

\* ------------------------------------------ get_data_shapes and fit

\* Fit calls made on one object in the object-level specification.
MaxFitCalls == 2

XShapes == {<<100, 32, 32>>, <<100, 32, 32, 3>>, <<100, 16, 16, 2>>,
            <<100, 32, 32, 3, 1>>}
\* Label arrays carry the examples axis: rank 1 or more.
YShapes == {<<100>>, <<100, 1>>, <<100, 5>>, <<100, 5, 3>>}

\* get_data_shapes(x, y) on the shapes of x and y: raises ValueError or
\* returns (x.shape[1:], output_size).
\* (A variant that expects rank 3.)
get_data_shapes_rank3(x, y) ==
    IF Len(x) # 3 THEN [raises |-> TRUE, x_shape |-> <<>>, y_size |-> 0]
    ELSE [raises |-> FALSE, x_shape |-> Tail(x),
          y_size |-> IF Len(y) = 1 THEN 1 ELSE y[2]]
get_data_shapes(x, y) ==
    IF Len(x) # 4 THEN [raises |-> TRUE, x_shape |-> <<>>, y_size |-> 0]
    ELSE [raises |-> FALSE, x_shape |-> Tail(x),
          y_size |-> IF Len(y) = 1 THEN 1 ELSE y[2]]

\* A freshly built, uncompiled, unreplicated Model: build_network's
\* `self.model = Model(input_layer, ...)`.
FreshModel(id) ==
    [id |-> id, replicated |-> FALSE, compiled |-> FALSE, fitted |-> FALSE]

\* Entering fit(x, y, build): the frame of the call.
EnterFit(x, y, build) ==
    /\ fit_x' = x
    /\ fit_y' = y
    /\ fit_build' = build
    /\ fit_error' = {}
    /\ model_at_call' = scn.model
    /\ built_at_call' = n_built
    /\ n_fits' = n_fits + 1
    /\ fpc' = IF build THEN "shapes" ELSE "train"

\* Line 122: x_shape, y_size = self.get_data_shapes(x, y)
FitGetShapes ==
    /\ fpc = "shapes"
    /\ LET r == get_data_shapes(fit_x, fit_y)
       IN  /\ shapes_ret' = {[x |-> fit_x, y |-> fit_y, ret |-> r]}
           /\ IF r.raises
              THEN fpc' = "raised" /\ fit_error' = {"ValueError"}
              ELSE fpc' = "build" /\ UNCHANGED fit_error
    /\ UNCHANGED <<scn, n_built, fit_x, fit_y, fit_build, model_at_call,
                   built_at_call, fit_calls, n_fits>>
    /\ UNCHANGED <<bvars, dvars, svars>>

\* Line 123: self.build_network(x_shape, y_size) replaces self.model.
FitBuild ==
    /\ fpc = "build"
    /\ n_built' = n_built + 1
    /\ scn' = [scn EXCEPT !.model = FreshModel(n_built + 1)]
    /\ fpc' = "compile"
    /\ UNCHANGED <<fit_x, fit_y, fit_build, fit_error, shapes_ret,
                   model_at_call, built_at_call, fit_calls, n_fits>>
    /\ UNCHANGED <<bvars, dvars, svars>>

\* Line 124: self.compile_model()
FitCompile ==
    /\ fpc = "compile"
    /\ scn' = [scn EXCEPT !.model.compiled = TRUE]
    /\ fpc' = "train"
    /\ UNCHANGED <<n_built, fit_x, fit_y, fit_build, fit_error, shapes_ret,
                   model_at_call, built_at_call, fit_calls, n_fits>>
    /\ UNCHANGED <<bvars, dvars, svars>>

\* Lines 129-130: self.model.fit(x, y, batch_size=self.batch_size, ...).
\* Without a model (build=False on a new object) the attribute access raises,
\* and the engine refuses to fit a model that was never compiled.
FitTrain ==
    /\ fpc = "train"
    /\ IF scn.model.id = 0 \/ ~scn.model.compiled
       THEN /\ fpc' = "raised"
            /\ fit_error' = {IF scn.model.id = 0 THEN "AttributeError"
                             ELSE "RuntimeError"}
            /\ UNCHANGED <<scn, fit_calls>>
       ELSE /\ fit_calls' = fit_calls \cup
                   {[batch_size |-> scn.batch_size, model |-> scn.model]}
            /\ scn' = [scn EXCEPT !.model.fitted = TRUE]
            /\ fpc' = "returned"
            /\ UNCHANGED fit_error
    /\ UNCHANGED <<n_built, fit_x, fit_y, fit_build, shapes_ret,
                   model_at_call, built_at_call, n_fits>>
    /\ UNCHANGED <<bvars, dvars, svars>>

\* The engine raises while building, compiling or fitting (an invalid layer
\* graph, a placement failure, memory): fit does not catch it.
FitEngineRaises ==
    /\ fpc \in {"build", "compile", "train"}
    /\ scn.model.id # 0 \/ fpc = "build"
    /\ fpc' = "raised"
    /\ fit_error' = {"EngineError"}
    /\ UNCHANGED <<scn, n_built, fit_x, fit_y, fit_build, shapes_ret,
                   model_at_call, built_at_call, fit_calls, n_fits>>
    /\ UNCHANGED <<bvars, dvars, svars>>

\* --- the object used directly: a caller constructs a network and calls fit.

ObjectInit ==
    /\ BuilderIdle
    /\ DriverIdle
    /\ ScalerIdle
    /\ scn \in {[exists |-> TRUE, cls |-> k, batch_size |-> 256, model |-> NoModel] :
                   k \in NetClasses}
    /\ n_built = 0 /\ fpc = "idle"
    /\ fit_x = <<>> /\ fit_y = <<>> /\ fit_build = TRUE /\ fit_error = {}
    /\ shapes_ret = {} /\ model_at_call = NoModel /\ built_at_call = 0
    /\ fit_calls = {} /\ n_fits = 0

\* scn.fit(x, y, build=...) called by the user of the object.
ApiFit ==
    /\ fpc \in {"idle", "returned", "raised"}
    /\ n_fits < MaxFitCalls
    /\ \E x \in XShapes, y \in YShapes, b \in BOOLEAN : EnterFit(x, y, b)
    /\ UNCHANGED <<scn, n_built, shapes_ret, fit_calls>>
    /\ UNCHANGED <<bvars, dvars, svars>>

ObjectNext ==
    ApiFit \/ FitGetShapes \/ FitBuild \/ FitCompile \/ FitTrain \/ FitEngineRaises

SpecFit == ObjectInit /\ [][ObjectNext]_vars


\* ------------------------------ train_conv_net_cpu and train_conv_net_gpu

\* num_gpus ranges over 0..MaxGpus.
MaxGpus == 11
Seeds == {1, 2}
BatchSizes == {32, 256}
\* Shapes of train_data and train_labels handed to a driver.
TrainXShapes == {<<100, 32, 32>>, <<100, 32, 32, 3>>}
TrainYShapes == {<<100>>, <<100, 5>>}

\* The decimal digits of n >= 0, most significant first.
RECURSIVE Digits(_)
Digits(n) == IF n < 10 THEN <<n>> ELSE Append(Digits(n \div 10), n % 10)

\* "{0:02d}".format(n): the digits of n, zero-padded on the left to width 2.
\* (A variant without the padding.)
Format02dUnpadded(n) == Digits(n)
Format02d(n) == IF Len(Digits(n)) < 2 THEN <<0>> \o Digits(n) ELSE Digits(n)

\* "goes16_resnet_gpus_{0:02d}.h5".format(num_gpus)
ModelPath(n) == [stem |-> "goes16_resnet_gpus_", nn |-> Format02d(n), ext |-> ".h5"]

DriverInit ==
    /\ BuilderIdle
    /\ ObjectIdle
    /\ ScalerIdle
    /\ drv \in {"cpu", "gpu"}
    /\ num_gpus \in 0..MaxGpus
    /\ drv = "cpu" => num_gpus = 0
    /\ seed \in Seeds
    /\ cfg_batch \in BatchSizes
    /\ train_x \in TrainXShapes
    /\ train_y \in TrainYShapes
    /\ dpc = "np_seed"
    /\ np_seed = {} /\ tf_seed = {} /\ sess = "none"
    /\ printed = <<>> /\ saved = {}

\* Lines 205 / 221: np.random.seed(seed)
SeedNumpy ==
    /\ dpc = "np_seed"
    /\ np_seed' = {seed}
    /\ dpc' = IF drv = "cpu" THEN "tf_seed" ELSE "session"
    /\ UNCHANGED <<drv, num_gpus, seed, cfg_batch, train_x, train_y, tf_seed,
                   sess, printed, saved>>
    /\ UNCHANGED <<bvars, ovars, svars>>

\* Lines 206 / 226-227: K.tf.set_random_seed(seed)
\* (A variant that leaves the engine unseeded.)
SeedTensorEngineSkipped ==
    /\ dpc = "tf_seed"
    /\ dpc' = IF drv = "cpu" THEN "session" ELSE "branch"
    /\ UNCHANGED <<drv, num_gpus, seed, cfg_batch, train_x, train_y, np_seed,
                   tf_seed, sess, printed, saved>>
    /\ UNCHANGED <<bvars, ovars, svars>>
SeedTensorEngine ==
    /\ dpc = "tf_seed"
    /\ tf_seed' = {seed}
    /\ dpc' = IF drv = "cpu" THEN "session" ELSE "branch"
    /\ UNCHANGED <<drv, num_gpus, seed, cfg_batch, train_x, train_y, np_seed,
                   sess, printed, saved>>
    /\ UNCHANGED <<bvars, ovars, svars>>

\* Lines 207-209 / 222-225: sess = K.tf.Session(...); K.set_session(sess)
OpenSession ==
    /\ dpc = "session"
    /\ sess' = "open"
    /\ dpc' = IF drv = "cpu" THEN "branch" ELSE "tf_seed"
    /\ UNCHANGED <<drv, num_gpus, seed, cfg_batch, train_x, train_y, np_seed,
                   tf_seed, printed, saved>>
    /\ UNCHANGED <<bvars, ovars, svars>>

\* Lines 212 / 231 / 236: scn = StandardConvNet(**hp) on the cpu driver,
\* scn = ResNet(**hp) when num_gpus >= 1.
Construct ==
    /\ dpc = "branch"
    /\ drv = "cpu" \/ num_gpus >= 1
    /\ scn' = [exists |-> TRUE,
               cls |-> IF drv = "cpu" THEN "StandardConvNet" ELSE "ResNet",
               batch_size |-> cfg_batch,
               model |-> NoModel]
    /\ dpc' = IF drv = "gpu" /\ num_gpus > 1 THEN "scale" ELSE "fit"
    /\ UNCHANGED <<n_built, fpc, fit_x, fit_y, fit_build, fit_error, shapes_ret,
                   model_at_call, built_at_call, fit_calls, n_fits>>
    /\ UNCHANGED <<bvars, svars, drv, num_gpus, seed, cfg_batch, train_x, train_y,
                   np_seed, tf_seed, sess, printed, saved>>

\* Lines 246-247: print("Number of GPUs set to 0")
NoGpus ==
    /\ dpc = "branch"
    /\ drv = "gpu" /\ num_gpus < 1
    /\ printed' = Append(printed, "Number of GPUs set to 0")
    /\ dpc' = "save"
    /\ UNCHANGED <<drv, num_gpus, seed, cfg_batch, train_x, train_y, np_seed,
                   tf_seed, sess, saved>>
    /\ UNCHANGED <<bvars, ovars, svars>>

\* Line 237: scn.batch_size *= num_gpus
\* (A variant that leaves the batch size as configured.)
ScaleBatchSizeUnscaled ==
    /\ dpc = "scale"
    /\ dpc' = "shapes"
    /\ UNCHANGED ovars
    /\ UNCHANGED <<bvars, svars, drv, num_gpus, seed, cfg_batch, train_x, train_y,
                   np_seed, tf_seed, sess, printed, saved>>
ScaleBatchSize ==
    /\ dpc = "scale"
    /\ scn' = [scn EXCEPT !.batch_size = scn.batch_size * num_gpus]
    /\ dpc' = "shapes"
    /\ UNCHANGED <<n_built, fpc, fit_x, fit_y, fit_build, fit_error, shapes_ret,
                   model_at_call, built_at_call, fit_calls, n_fits>>
    /\ UNCHANGED <<bvars, svars, drv, num_gpus, seed, cfg_batch, train_x, train_y,
                   np_seed, tf_seed, sess, printed, saved>>

\* Line 239: x_shape, y_size = scn.get_data_shapes(train_data, train_labels)
DriverGetShapes ==
    /\ dpc = "shapes"
    /\ LET r == get_data_shapes(train_x, train_y)
       IN  /\ shapes_ret' = {[x |-> train_x, y |-> train_y, ret |-> r]}
           /\ dpc' = IF r.raises THEN "raised" ELSE "build"
    /\ UNCHANGED <<scn, n_built, fpc, fit_x, fit_y, fit_build, fit_error,
                   model_at_call, built_at_call, fit_calls, n_fits>>
    /\ UNCHANGED <<bvars, svars, drv, num_gpus, seed, cfg_batch, train_x, train_y,
                   np_seed, tf_seed, sess, printed, saved>>

\* Line 240: scn.build_network(x_shape, y_size)
DriverBuild ==
    /\ dpc = "build"
    /\ n_built' = n_built + 1
    /\ scn' = [scn EXCEPT !.model = FreshModel(n_built + 1)]
    /\ dpc' = "replicate"
    /\ UNCHANGED <<fpc, fit_x, fit_y, fit_build, fit_error, shapes_ret,
                   model_at_call, built_at_call, fit_calls, n_fits>>
    /\ UNCHANGED <<bvars, svars, drv, num_gpus, seed, cfg_batch, train_x, train_y,
                   np_seed, tf_seed, sess, printed, saved>>

\* Line 242: scn.model = multi_gpu_model(scn.model, gpus=num_gpus, ...)
Replicate ==
    /\ dpc = "replicate"
    /\ scn' = [scn EXCEPT !.model.replicated = TRUE]
    /\ dpc' = "compile"
    /\ UNCHANGED <<n_built, fpc, fit_x, fit_y, fit_build, fit_error, shapes_ret,
                   model_at_call, built_at_call, fit_calls, n_fits>>
    /\ UNCHANGED <<bvars, svars, drv, num_gpus, seed, cfg_batch, train_x, train_y,
                   np_seed, tf_seed, sess, printed, saved>>

\* Line 243: scn.compile_model()
DriverCompile ==
    /\ dpc = "compile"
    /\ scn' = [scn EXCEPT !.model.compiled = TRUE]
    /\ dpc' = "fit"
    /\ UNCHANGED <<n_built, fpc, fit_x, fit_y, fit_build, fit_error, shapes_ret,
                   model_at_call, built_at_call, fit_calls, n_fits>>
    /\ UNCHANGED <<bvars, svars, drv, num_gpus, seed, cfg_batch, train_x, train_y,
                   np_seed, tf_seed, sess, printed, saved>>

\* Lines 213 / 233 / 245: scn.fit(train_data, train_labels, val_x=..., val_y=...)
\* with build left at its default, True.
CallFit ==
    /\ dpc = "fit"
    /\ EnterFit(train_x, train_y, TRUE)
    /\ dpc' = "in_fit"
    /\ UNCHANGED <<scn, n_built, shapes_ret, fit_calls>>
    /\ UNCHANGED <<bvars, svars, drv, num_gpus, seed, cfg_batch, train_x, train_y,
                   np_seed, tf_seed, sess, printed, saved>>

\* fit returns to the driver: the cpu driver goes on to close the session,
\* the gpu driver to save the model.
FitReturns ==
    /\ dpc = "in_fit"
    /\ fpc = "returned"
    /\ fpc' = "idle"
    /\ dpc' = IF drv = "cpu" THEN "close" ELSE "save"
    /\ UNCHANGED <<scn, n_built, fit_x, fit_y, fit_build, fit_error, shapes_ret,
                   model_at_call, built_at_call, fit_calls, n_fits>>
    /\ UNCHANGED <<bvars, svars, drv, num_gpus, seed, cfg_batch, train_x, train_y,
                   np_seed, tf_seed, sess, printed, saved>>

\* An exception of fit is not caught by the driver: it leaves the driver.
FitRaises ==
    /\ dpc = "in_fit"
    /\ fpc = "raised"
    /\ fpc' = "idle"
    /\ dpc' = "raised"
    /\ UNCHANGED <<scn, n_built, fit_x, fit_y, fit_build, fit_error, shapes_ret,
                   model_at_call, built_at_call, fit_calls, n_fits>>
    /\ UNCHANGED <<bvars, svars, drv, num_gpus, seed, cfg_batch, train_x, train_y,
                   np_seed, tf_seed, sess, printed, saved>>

\* Lines 248-249: if scn is not None: save_model(scn.model, path)
SaveModel ==
    /\ dpc = "save"
    /\ saved' = IF scn.exists
                THEN saved \cup {[path |-> ModelPath(num_gpus), model |-> scn.model]}
                ELSE saved
    /\ dpc' = "close"
    /\ UNCHANGED <<drv, num_gpus, seed, cfg_batch, train_x, train_y, np_seed,
                   tf_seed, sess, printed>>
    /\ UNCHANGED <<bvars, ovars, svars>>

\* The engine raises in build_network, multi_gpu_model, compile_model or
\* save_model called by the driver itself; nothing catches it.
DriverEngineRaises ==
    /\ \/ dpc \in {"build", "replicate", "compile"}
       \/ dpc = "save" /\ scn.exists
    /\ dpc' = "raised"
    /\ UNCHANGED <<drv, num_gpus, seed, cfg_batch, train_x, train_y, np_seed,
                   tf_seed, sess, printed, saved>>
    /\ UNCHANGED <<bvars, ovars, svars>>

\* Lines 214-216 / 250-252: sess.close(); del sess; return
CloseSession ==
    /\ dpc = "close"
    /\ sess' = "closed"
    /\ dpc' = "returned"
    /\ UNCHANGED <<drv, num_gpus, seed, cfg_batch, train_x, train_y, np_seed,
                   tf_seed, printed, saved>>
    /\ UNCHANGED <<bvars, ovars, svars>>

DriverNext ==
    \/ SeedNumpy \/ SeedTensorEngine \/ OpenSession \/ Construct \/ NoGpus
    \/ ScaleBatchSize \/ DriverGetShapes \/ DriverBuild \/ Replicate
    \/ DriverCompile \/ CallFit \/ FitReturns \/ FitRaises \/ SaveModel
    \/ DriverEngineRaises \/ CloseSession
    \/ FitGetShapes \/ FitBuild \/ FitCompile \/ FitTrain \/ FitEngineRaises

SpecDriver == DriverInit /\ [][DriverNext]_vars


\* ----------------------------------------------------------- MinMaxScaler2D

\* Array entries range over -1..MaxValue.
MaxValue == 1
Values == (-1)..MaxValue
\* out_min and out_max range over OutBounds, with out_min <= out_max.
OutBounds == 0..2
Samples == 1..3
DTypes == {"float", "int"}

\* The entries of x[:, v] for one index v of axis 1.
Columns == [Samples -> Values]
\* Columns of the arrays that have two indices on axis 1.
PairColumns == {[i \in Samples |-> 0],
                [i \in Samples |-> IF i = 1 THEN -1 ELSE IF i = 2 THEN 0 ELSE 1]}

\* An array x, reduced to what the scaler reads: its dtype and, for each index
\* v of axis 1, the entries of x[:, v].
Arrays ==
    {[dtype |-> t, cols |-> <<col>>] : t \in DTypes, col \in Columns}
    \cup {[dtype |-> t, cols |-> <<c1, c2>>] :
             t \in DTypes, c1 \in PairColumns, c2 \in PairColumns}
\* Arrays given to transform that were not seen by fit.
OtherArrays ==
    {[dtype |-> t, cols |-> [v \in 1..nv |-> [i \in Samples |-> a]]] :
        t \in DTypes, nv \in 1..2, a \in {0, 1}}

\* Array entries after arithmetic: a fraction n/d (d > 0), a float that is
\* not finite, or the result of casting such a float to an integer dtype,
\* which the platform leaves undefined.
Fin(n, d) == [k |-> "fin", n |-> n, d |-> d]
NaN == [k |-> "nan", n |-> 0, d |-> 1]
Inf(sign) == [k |-> "inf", n |-> sign, d |-> 1]
Undefined == [k |-> "undefined", n |-> 0, d |-> 1]

SeqMin(col) == CHOOSE a \in {col[i] : i \in DOMAIN col} :
                  \A i \in DOMAIN col : a <= col[i]
SeqMax(col) == CHOOSE a \in {col[i] : i \in DOMAIN col} :
                  \A i \in DOMAIN col : a >= col[i]

\* fit(x): one row (min, max, range) per index of axis 1.
FittedTable(x) ==
    [v \in DOMAIN x.cols |->
        [min |-> SeqMin(x.cols[v]), max |-> SeqMax(x.cols[v]),
         range |-> SeqMax(x.cols[v]) - SeqMin(x.cols[v])]]

\* Storing a float into x_new, which has the dtype of x: an integer dtype
\* truncates toward zero, and has no value for a float that is not finite.
Store(val, dtype) ==
    IF dtype = "float" THEN val
    ELSE IF val.k = "fin" THEN Fin(IntTrunc(val.n, val.d), 1)
    ELSE Undefined

\* Lines 285-286: (x[:, v] - min) / range, as float division.
Normalize(a, row) ==
    IF row.range # 0 THEN
        IF row.range > 0 THEN Fin(a - row.min, row.range)
        ELSE Fin(row.min - a, -row.range)
    ELSE IF a = row.min THEN NaN
    ELSE Inf(IF a > row.min THEN 1 ELSE -1)

\* Line 288: x_new[:, v] * self.out_range + self.out_min
\* (A variant that forgets the offset out_min.)
RescaleNoOffset(val, range, min) ==
    CASE val.k = "fin" -> Fin(val.n * range, val.d)
      [] val.k = "nan" -> NaN
      [] val.k = "inf" -> IF range = 0 THEN NaN
                          ELSE Inf(IF range > 0 THEN val.n ELSE -val.n)
      [] OTHER -> Undefined
Rescale(val, range, min) ==
    CASE val.k = "fin" -> Fin(val.n * range + min * val.d, val.d)
      [] val.k = "nan" -> NaN
      [] val.k = "inf" -> IF range = 0 THEN NaN
                          ELSE Inf(IF range > 0 THEN val.n ELSE -val.n)
      [] OTHER -> Undefined

\* Lines 283-289: the array transform returns, given the fitted table.
Transformed(x, table, omin, omax, orange) ==
    [v \in DOMAIN x.cols |->
        [i \in Samples |->
            LET first == Store(Normalize(x.cols[v][i], table[v]), x.dtype)
            IN  IF omin # 0 \/ omax # 1
                THEN Store(Rescale(first, orange, omin), x.dtype)
                ELSE first]]

\* __init__(out_min, out_max): a scaler that has not been fitted.
ScalerInit ==
    /\ BuilderIdle
    /\ DriverIdle
    /\ ObjectIdle
    /\ out_min \in OutBounds
    /\ out_max \in OutBounds
    /\ out_min <= out_max
    /\ out_range = out_max - out_min
    /\ scale_values = {}
    /\ fit_data = {} /\ tr_data = {} /\ tr_out = {} /\ tr_error = {}
    /\ last_op = "init"

\* The effect of fit(x) on the object.
DoFit(x) ==
    /\ scale_values' = {FittedTable(x)}
    /\ fit_data' = {x}

\* The effect of transform(x) given the table in force.
DoTransform(x, tables) ==
    /\ tr_data' = {x}
    /\ IF tables = {}
       THEN \* self.scale_values is None
            tr_out' = {} /\ tr_error' = {"AttributeError"}
       ELSE LET table == CHOOSE t \in tables : TRUE
            IN  IF Len(x.cols) # Len(table)
                THEN tr_out' = {} /\ tr_error' = {"ValueError"}
                ELSE /\ tr_out' = {Transformed(x, table, out_min, out_max, out_range)}
                     /\ tr_error' = {}

\* fit(x, y=None)
ScalerFit ==
    /\ \E x \in Arrays : DoFit(x)
    /\ tr_data' = {} /\ tr_out' = {} /\ tr_error' = {}
    /\ last_op' = "fit"
    /\ UNCHANGED <<out_min, out_max, out_range>>
    /\ UNCHANGED <<bvars, dvars, ovars>>

\* transform(x), on the array given to fit or on another one
ScalerTransform ==
    /\ \E x \in fit_data \cup OtherArrays : DoTransform(x, scale_values)
    /\ last_op' = "transform"
    /\ UNCHANGED <<out_min, out_max, out_range, scale_values, fit_data>>
    /\ UNCHANGED <<bvars, dvars, ovars>>

\* fit_transform(x, y=None): fit(x), then transform(x)
ScalerFitTransform ==
    /\ \E x \in Arrays :
          /\ DoFit(x)
          /\ DoTransform(x, {FittedTable(x)})
    /\ last_op' = "fit_transform"
    /\ UNCHANGED <<out_min, out_max, out_range>>
    /\ UNCHANGED <<bvars, dvars, ovars>>

ScalerNext == ScalerFit \/ ScalerTransform \/ ScalerFitTransform

SpecScaler == ScalerInit /\ [][ScalerNext]_vars


\* ------------------------------------------------- claims on the builders

SpatialWidth == input_shape[WidthAxis(hp.data_format)]
BuildReturned == bpc \in {"done", "error"}

\* C1 (as stated): whenever the spatial width of the input equals
\* min_data_width * 2^k for an integer k >= 0, build_network (of either
\* class) ends with a network of exactly k stages whose final dense layer has
\* exactly output_size units.
C1_ExactlyKStages ==
    (BuildReturned
       /\ (SpatialWidth = hp.min_data_width
             \/ IsDoubling(SpatialWidth, hp.min_data_width)))
    => /\ bpc = "done"
       /\ built.n_stages = FloorLog2Ratio(SpatialWidth, hp.min_data_width)
       /\ Len(stages) = built.n_stages
       /\ built.units = output_size

\* C2 (as stated): every residual block returns a layer with the spatial
\* size of its input and with `filters` channels, in both data layouts and on
\* both shortcut branches, and takes the projection shortcut exactly when the
\* incoming channel count differs from `filters`.
C2_ResidualBlockShape ==
    \A i \in 1..Len(stages) :
        LET r   == stages[i]
            fmt == hp.data_format
        IN  net = "ResNet" =>
              /\ r.ok
              /\ \A a \in SpatialAxes(fmt) : r.out[a] = r.in[a]
              /\ r.out[ChannelAxis(fmt)] = r.filters
              /\ (r.shortcut = "projection") <=> (r.in[ChannelAxis(fmt)] # r.filters)

\* floor(n * rate), stated without the code's int().
FloorTimes(n, rate) == CHOOSE q \in 0..(n * rate.n) :
                          q * rate.d <= n * rate.n /\ n * rate.n < (q + 1) * rate.d

RECURSIVE PowInt(_, _)
PowInt(b, e) == IF e <= 0 THEN 1 ELSE b * PowInt(b, e - 1)
\* floor(min_filters * rate^i): the closed form the code does NOT use.
ClosedFormFilters(i) ==
    (hp.min_filters * PowInt(hp.filter_growth_rate.n, i))
        \div PowInt(hp.filter_growth_rate.d, i)

\* C5: in both build_network variants the filter count of the first stage is
\* min_filters and each later stage uses floor(previous count * growth rate),
\* truncated at every step; with min_filters = 16 and growth rate 2 the first
\* four stages use 16, 32, 64, 128.
C5_FilterSequence ==
    /\ \A i \in 1..Len(stages) :
          stages[i].filters =
              IF i = 1 THEN hp.min_filters
              ELSE FloorTimes(stages[i - 1].filters, hp.filter_growth_rate)
    /\ (bpc = "loop" /\ c < num_conv_layers) =>
          num_filters = IF c = 0 THEN hp.min_filters
                        ELSE FloorTimes(stages[c].filters, hp.filter_growth_rate)
    /\ (hp.min_filters = 16 /\ hp.filter_growth_rate = [n |-> 2, d |-> 1]
          /\ Len(stages) >= 4)
       => <<stages[1].filters, stages[2].filters, stages[3].filters,
            stages[4].filters>> = <<16, 32, 64, 128>>

\* C5 witness: a build whose fourth stage uses a filter count that differs
\* from the closed form (5, 7, 10, 15 against floor(5 * 1.5^3) = 16).
C5_Witness ==
    /\ Len(stages) >= 4
    /\ stages[4].filters # ClosedFormFilters(3)
    /\ stages[4].filters = 15

\* The 16, 32, 64, 128 example of C5 is reached in both classes.
C5_ExampleReached ==
    /\ Len(stages) >= 4
    /\ hp.min_filters = 16
    /\ hp.filter_growth_rate = [n |-> 2, d |-> 1]
    /\ net = "ResNet"

\* ------------------------------------- claims on the drivers and on fit

\* C3 (as stated): with num_gpus > 1 the network is built exactly once, and
\* the model that is fitted and saved is the replicated model.
C3_ReplicaIsTrained ==
    (drv = "gpu" /\ num_gpus > 1)
    => /\ n_built <= 1
       /\ \A f \in fit_calls : f.model.replicated
       /\ \A sv \in saved : sv.model.replicated

\* C4 (as stated): whenever a driver has handed control back to its caller,
\* by returning or by raising, the device session is closed.
C4_SessionClosedOnExit ==
    dpc \in {"returned", "raised"} => sess = "closed"

\* The digits ds write n zero-padded to two digits: they denote n, are at
\* least two, and carry no padding beyond the second digit.
RECURSIVE DigitsValue(_)
DigitsValue(ds) ==
    IF ds = <<>> THEN 0
    ELSE 10 * DigitsValue(SubSeq(ds, 1, Len(ds) - 1)) + ds[Len(ds)]
IsZeroPadded2(ds, n) ==
    /\ Len(ds) >= 2
    /\ \A i \in 1..Len(ds) : ds[i] \in 0..9
    /\ DigitsValue(ds) = n
    /\ Len(ds) > 2 => ds[1] # 0

\* C6: train_conv_net_gpu saves a model file exactly when a model was
\* produced (num_gpus >= 1 and training completed), at the path
\* goes16_resnet_gpus_<NN>.h5 with NN the device count zero-padded to two
\* digits; with zero devices it builds, trains and saves nothing and only
\* reports that zero devices were requested.
C6_SaveIffModelProduced ==
    drv = "gpu" =>
      /\ \A sv \in saved :
            /\ num_gpus >= 1
            /\ sv.model.fitted
            /\ sv.model.id # 0
            /\ sv.path.stem = "goes16_resnet_gpus_"
            /\ sv.path.ext = ".h5"
            /\ IsZeroPadded2(sv.path.nn, num_gpus)
      /\ (dpc \in {"close", "returned"} /\ num_gpus >= 1 /\ scn.model.fitted)
            => saved # {}
      /\ (dpc = "returned" /\ num_gpus >= 1) => saved # {}
      /\ num_gpus = 0 =>
            /\ ~scn.exists /\ n_built = 0 /\ n_fits = 0 /\ fit_calls = {}
            /\ saved = {}
            /\ dpc \in {"save", "close", "returned"}
                  => printed = <<"Number of GPUs set to 0">>
            /\ dpc \notin {"raised"}

\* C6 witness: the two-device run has saved goes16_resnet_gpus_02.h5.
C6_Witness ==
    /\ drv = "gpu" /\ num_gpus = 2 /\ dpc = "returned"
    /\ \E sv \in saved : sv.path.nn = <<0, 2>>

\* C7: in every driver strategy both random generators are seeded, with the
\* same seed value, before any network object or layer graph is constructed.
C7_SeededBeforeConstruction ==
    (scn.exists \/ n_built > 0 \/ dpc \in {"scale", "fit", "in_fit"})
    => np_seed = {seed} /\ tf_seed = {seed}

\* C7 witness: a multi-device run has built a layer graph.
C7_Witness == drv = "gpu" /\ num_gpus > 1 /\ n_built > 0 /\ scn.exists

\* C8: in train_conv_net_gpu the batch size handed to model.fit is the
\* configured batch_size times num_gpus when num_gpus > 1 and the configured
\* batch_size when num_gpus = 1 (so two devices double it).
C8_FitBatchSize ==
    drv = "gpu" =>
      \A f \in fit_calls :
          f.batch_size = IF num_gpus > 1 THEN cfg_batch * num_gpus ELSE cfg_batch

\* C8 witness: a two-device run has called model.fit with twice the
\* configured batch size.
C8_Witness ==
    /\ drv = "gpu" /\ num_gpus = 2
    /\ \E f \in fit_calls : f.batch_size = 2 * cfg_batch

\* C9: get_data_shapes raises exactly when x is not of rank 4 and otherwise
\* returns (x.shape[1:], 1 if y has rank 1 else y.shape[1]); fit with
\* build=True validates before it builds, so a rejected x leaves the model
\* of the object as it was.
C9_ShapesValidatedBeforeBuild ==
    /\ \A r \in shapes_ret :
          /\ r.ret.raises <=> Len(r.x) # 4
          /\ ~r.ret.raises =>
                /\ r.ret.x_shape = <<r.x[2], r.x[3], r.x[4]>>
                /\ r.ret.y_size = IF Len(r.y) = 1 THEN 1 ELSE r.y[2]
    /\ (fpc = "raised" /\ fit_error = {"ValueError"}) =>
          /\ Len(fit_x) # 4
          /\ scn.model = model_at_call
          /\ n_built = built_at_call
    /\ (fit_build /\ fpc \in {"build", "compile", "train", "returned"}) =>
          \E r \in shapes_ret : r.x = fit_x /\ r.y = fit_y /\ ~r.ret.raises
    /\ n_built > built_at_call => Len(fit_x) = 4

\* C9 witness: an object that already holds a fitted model has rejected a
\* rank-3 x.
C9_Witness ==
    /\ fpc = "raised" /\ fit_error = {"ValueError"}
    /\ scn.model.fitted
    /\ fit_x = <<100, 32, 32>>

\* ------------------------------------------------- claims on the scaler

\* A transformed entry lies within [out_min, out_max].
InOutRange(val) ==
    /\ val.k = "fin"
    /\ out_min * val.d <= val.n
    /\ val.n <= out_max * val.d
IsExactly(val, a) == val.k = "fin" /\ val.n = a * val.d

\* transform has just returned for the array that fit saw.
TransformedFitData == tr_out # {} /\ tr_data # {} /\ tr_data = fit_data

\* What C10 says of index v of axis 1 of the array x and its transform out.
ScaledWithinRange(x, out, v) ==
    LET col == x.cols[v]
    IN  /\ \A i \in Samples : InOutRange(out[v][i])
        /\ (out_min = 0 /\ out_max = 1 /\ last_op = "fit_transform") =>
              \A i \in Samples :
                  /\ (\A j \in Samples : col[i] <= col[j]) => IsExactly(out[v][i], 0)
                  /\ (\A j \in Samples : col[i] >= col[j]) => IsExactly(out[v][i], 1)

C10_RescaledReached ==
    /\ TransformedFitData
    /\ out_min = 1 /\ out_max = 2
    /\ \E x \in tr_data, out \in tr_out :
          /\ x.cols[1] = [i \in Samples |-> i - 2]
          /\ out[1][2] = [k |-> "fin", n |-> 3, d |-> 2]

====
